---- MODULE Spec2Model ----
(***************************************************************************)
(* Model of the documentation extraction tool (scripts/download_docs.py,   *)
(* scripts/extractors/git_clone.py, scripts/converters/*.py).              *)
(*                                                                         *)
(* Three specifications share the module:                                  *)
(*   Spec      one run of main(): config load, project lookup,             *)
(*             extract_project (fetch, list, convert loop, manifest).      *)
(*   SpecFetch a sequence of GitExtractor.fetch_source / cleanup calls on  *)
(*             a small set of working directories.                         *)
(*   SpecConv  single calls of Converter.convert.                          *)
(***************************************************************************)
EXTENDS Integers, Sequences, FiniteSets, TLC

VARIABLES
    \* ---- main() / extract_project() -----------------------------------
    pc,              \* position in main / extract_project
    args,            \* parsed command line: list, project, max_docs
    config,          \* how load_config ended: "unloaded", "ok" or the exception
    project_config,  \* projects[args.project]
    main_result,     \* how main() ended: running / return code / raise
    exc,             \* exception that left extract_project ("none" if none)
    work_dir,        \* state of the TemporaryDirectory of extract_project
    git_cmds,        \* external commands fetch_source ran in this run
    enumerated,      \* what extractor.list_documents returned
    documents,       \* the list the loop iterates (after the max_docs cut)
    results,         \* per processed document: "ok" or the exception caught
    converted_count, \* local counter of extract_project
    metadata,        \* the manifest dict built in memory
    docs_dir,        \* files in <output_dir>/docs: name -> what was written
    metadata_json,   \* <output_dir>/metadata.json on disk
    meta_writes,     \* number of times this run opened metadata.json for write
    \* ---- GitExtractor call sequences ----------------------------------
    extractor,       \* GitExtractor fields: sparse_paths, version_tag
    trees,           \* work_dir -> state of work_dir/repo
    calls,           \* log of fetch_source / cleanup calls
    \* ---- Converter.convert calls --------------------------------------
    conv_in,         \* converter name, source path, content, tool outcome
    conv_out,        \* result of convert: pending / return / raise
    conv_again,      \* result of convert on the text convert returned
    \* ---- GitExtractor._extract_title calls ----------------------------
    title_in,        \* the file: its path, its content, whether it can be read
    title_out        \* result of _extract_title: pending / return

vars == <<pc, args, config, project_config, main_result, exc, work_dir, git_cmds,
          enumerated, documents, results, converted_count, metadata,
          docs_dir, metadata_json, meta_writes,
          extractor, trees, calls, conv_in, conv_out, conv_again,
          title_in, title_out>>

mainVars == <<pc, args, config, project_config, main_result, exc, work_dir, git_cmds,
              enumerated, documents, results, converted_count, metadata,
              docs_dir, metadata_json, meta_writes>>
fetchVars == <<extractor, trees, calls>>
convVars == <<conv_in, conv_out, conv_again, title_in, title_out>>

-----------------------------------------------------------------------------
(* Bounds *)

\* longest list extractor.list_documents returns
MaxDocs == 3
\* largest --max-docs value drawn (the smallest is -MaxCap)
MaxCap == 1
\* number of fetch_source / cleanup calls in one SpecFetch behaviour
MaxCalls == 3
\* longest document content drawn in SpecConv
MaxLen == 2
\* most lines of a file whose title is extracted in SpecTitle
MaxLines == 4
MaxTokens == 4

-----------------------------------------------------------------------------
(* Small helpers on sequences *)

Min(a, b) == IF a < b THEN a ELSE b
Max(a, b) == IF a > b THEN a ELSE b

Range(s) == {s[i] : i \in 1..Len(s)}

\* sequences over S without repetition, of length at most n
DistinctSeqs(S, n) ==
    {s \in UNION {[1..k -> S] : k \in 0..n} :
        \A i, j \in 1..Len(s) : i # j => s[i] # s[j]}

\* sequences over S of length at most n
SeqsUpTo(S, n) == UNION {[1..k -> S] : k \in 0..n}

\* Python list slicing documents[:n] for any integer n
SliceTo(s, n) ==
    IF n >= 0 THEN SubSeq(s, 1, Min(n, Len(s)))
    ELSE SubSeq(s, 1, Max(Len(s) + n, 0))

\* str.replace(old, new) for a one-character old
replace(s, old, new) == [i \in 1..Len(s) |-> IF s[i] = old THEN new ELSE s[i]]

\* str.lstrip(ch)
RECURSIVE lstrip(_, _)
lstrip(s, ch) ==
    IF s # <<>> /\ Head(s) = ch THEN lstrip(Tail(s), ch) ELSE s

\* index of the last occurrence of ch in s, 0 if none
RECURSIVE rfind(_, _)
rfind(s, ch) ==
    IF s = <<>> THEN 0
    ELSE IF s[Len(s)] = ch THEN Len(s)
    ELSE rfind(SubSeq(s, 1, Len(s) - 1), ch)

-----------------------------------------------------------------------------
(* Paths.  A relative path is [name, suffix]: name is the path without its *)
(* suffix as a sequence of characters ("/" separates the components).      *)

Path(name, suffix) == [name |-> name, suffix |-> suffix]

\* Path.with_suffix("")
with_suffix_empty(p) == p.name

\* str(path)
str(p) == p.name \o <<p.suffix>>

\* Path.stem: the last component without its suffix
stem(p) == SubSeq(p.name, rfind(p.name, "/") + 1, Len(p.name))

\* the source files a documentation tree may hold
AllDocs ==
    { Path(<<"a", "/", "b">>, ".md"),
      Path(<<"a", "_", "b">>, ".md"),
      Path(<<"b">>, ".md"),
      Path(<<"a">>, ".md") }

\* content of each source file
SourceContent(p) == p.name \o <<"\n">>

-----------------------------------------------------------------------------
(* Exceptions and call results *)

NoExc == [type |-> "none"]
Return(v) == [kind |-> "return", value |-> v]
Raise(e) == [kind |-> "raise", exc |-> e]

\* ConversionError(source_path, message)
ConversionError(source_path, message) ==
    [type |-> "ConversionError",
     source_path |-> source_path,
     msg |-> <<"Failed to convert ">> \o str(source_path) \o <<": ", message>>]

OSError(what) == [type |-> "OSError", msg |-> <<what>>]
ValueError(msg) == [type |-> "ValueError", msg |-> msg]
CalledProcessError(cmd) == [type |-> "CalledProcessError", msg |-> <<cmd>>]

-----------------------------------------------------------------------------
(* converters/*.py *)

\* keys of the converters dict of get_converter, in insertion order
converters == <<"identity", "rst", "asciidoc", "docbook", "mdx">>

\* get_converter falling back to the default converter for an unknown name
get_converter_fallback(name) ==
    IF name \notin Range(converters) THEN Return("identity") ELSE Return(name)

\* get_converter(name): the converter instance (named by its key) or ValueError
get_converter(name) ==
    IF name \notin Range(converters)
    THEN Raise(ValueError(<<"Unknown converter: ", name, ". Valid options: ">>
                          \o converters))
    ELSE Return(name)

\* Converter.output_format of each class
output_format(converter) ==
    CASE converter = "identity" -> "md"
      [] converter = "asciidoc" -> "adoc"
      [] converter = "rst"      -> "html"
      [] converter = "docbook"  -> "html"
      [] converter = "mdx"      -> "md"

\* how a call of pypandoc.convert_text can end: it returns the HTML, raises
\* RuntimeError (pandoc rejected the input or exited non-zero) or raises
\* OSError (the pandoc executable is missing or cannot be started)
ToolOutcomes == {"ok", "RuntimeError", "OSError"}

\* the text pandoc produces for `content` read as `format`
pandoc_html(content, format) == <<"<", format, ">">> \o content

IdentityConverter_convert(source_path, content, tool) == Return(content)

AsciidocConverter_convert(source_path, content, tool) == Return(content)

\* try: return str(pypandoc.convert_text(...))
\* except RuntimeError as e: raise ConversionError(source_path, str(e)) from e
RstConverter_convert(source_path, content, tool) ==
    CASE tool = "ok"           -> Return(pandoc_html(content, "rst"))
      [] tool = "RuntimeError" -> Raise(ConversionError(source_path, "pandoc failed"))
      [] tool = "OSError"      -> Raise(OSError("No pandoc was found"))

DocbookConverter_convert(source_path, content, tool) ==
    CASE tool = "ok"           -> Return(pandoc_html(content, "docbook"))
      [] tool = "RuntimeError" -> Raise(ConversionError(source_path, "pandoc failed"))
      [] tool = "OSError"      -> Raise(OSError("No pandoc was found"))


-----------------------------------------------------------------------------------------------------------------------------------------------------
(* extractors/git_clone.py *)

\* work_dir/repo does not exist
AbsentTree == [exists |-> FALSE, sparse_set |-> FALSE, ref |-> "none"]

\* a fresh clone of the default branch
ClonedTree == [exists |-> TRUE, sparse_set |-> FALSE, ref |-> "default"]

\* exit status of each external command of one fetch_source call (TRUE = 0)
GitOutcomes == [clone : BOOLEAN, sparse : BOOLEAN, tagfetch : BOOLEAN,
                checkout : BOOLEAN]

\* one subprocess.run: the command and whether it exited with status 0
Cmd(cmd, ok) == [cmd |-> cmd, ok |-> ok]

\* Python truthiness of sparse_paths (None and [] are false)
HasSparse(sparse_paths) == sparse_paths # <<>>
\* Python truthiness of version_tag (None and "" are false)
HasVersion(version_tag) == version_tag \notin {"None", ""}

FetchResult(raised, cmds, tree) == [raised |-> raised, cmds |-> cmds, tree |-> tree]

\* git clone --filter=blob:none --sparse --depth=1 (check=True), then
\* git sparse-checkout set <paths> (check=True).
\* A failed clone removes the directory it created; a failed sparse-checkout
\* leaves the clone in place.
clone_sparse(self, o) ==
    IF ~o.clone THEN FetchResult(TRUE, <<Cmd("clone --sparse", FALSE)>>, AbsentTree)
    ELSE IF HasSparse(self.sparse_paths)
         THEN FetchResult(~o.sparse,
                          <<Cmd("clone --sparse", TRUE), Cmd("sparse-checkout set", o.sparse)>>,
                          [ClonedTree EXCEPT !.sparse_set = o.sparse])
         ELSE FetchResult(FALSE, <<Cmd("clone --sparse", TRUE)>>, ClonedTree)

\* the clone run with check=False: a failure goes unnoticed
clone_shallow_unchecked(self, o) ==
    FetchResult(FALSE, <<Cmd("clone", o.clone)>>,
                IF o.clone THEN ClonedTree ELSE AbsentTree)

\* git clone --depth=1 (check=True)
clone_shallow(self, o) ==
    IF ~o.clone THEN FetchResult(TRUE, <<Cmd("clone", FALSE)>>, AbsentTree)
    ELSE FetchResult(FALSE, <<Cmd("clone", TRUE)>>, ClonedTree)

\* the tag fetch run with check=True: its failure ends the fetch before the
\* checkout
checkout_version_strict(self, tree, o) ==
    IF self.version_tag = "None" THEN FetchResult(FALSE, <<>>, tree)
    ELSE IF ~o.tagfetch THEN FetchResult(TRUE, <<Cmd("fetch tag", FALSE)>>, tree)
    ELSE FetchResult(~o.checkout,
                     <<Cmd("fetch tag", TRUE), Cmd("checkout", o.checkout)>>,
                     IF o.checkout THEN [tree EXCEPT !.ref = self.version_tag]
                     ELSE tree)

\* git fetch --depth=1 origin "tag <version_tag>" (check=False), then
\* git checkout <version_tag> (check=True)
checkout_version(self, tree, o) ==
    IF self.version_tag = "None" THEN FetchResult(FALSE, <<>>, tree)
    ELSE FetchResult(~o.checkout,
                     <<Cmd("fetch tag", o.tagfetch), Cmd("checkout", o.checkout)>>,
                     IF o.checkout THEN [tree EXCEPT !.ref = self.version_tag]
                     ELSE tree)

\* fetch_source without the `if repo_dir.exists()` short-circuit
fetch_source_reclones(self, tree, o) ==
    LET c == IF HasSparse(self.sparse_paths) THEN clone_sparse(self, o)
             ELSE clone_shallow(self, o)
    IN  IF c.raised THEN c
        ELSE IF HasVersion(self.version_tag)
             THEN LET v == checkout_version(self, c.tree, o)
                  IN  FetchResult(v.raised, c.cmds \o v.cmds, v.tree)
             ELSE c

\* GitExtractor.fetch_source(work_dir), `tree` being the state of work_dir/repo
fetch_source(self, tree, o) ==
    IF tree.exists THEN FetchResult(FALSE, <<>>, tree)
    ELSE LET c == IF HasSparse(self.sparse_paths) THEN clone_sparse(self, o)
                  ELSE clone_shallow(self, o)
         IN  IF c.raised THEN c
             ELSE IF HasVersion(self.version_tag)
                  THEN LET v == checkout_version(self, c.tree, o)
                       IN  FetchResult(v.raised, c.cmds \o v.cmds, v.tree)
                  ELSE c

\* GitExtractor.cleanup(work_dir): rmtree of work_dir/repo if it exists
cleanup(tree) == AbsentTree

\* GitExtractor(repo_url, sparse_paths, version_tag)
GitExtractor(sparse_paths, version_tag) ==
    [sparse_paths |-> sparse_paths, version_tag |-> version_tag]

-----------------------------------------------------------------------------
(* extractors/git_clone.py: _extract_title.  Text is a sequence of          *)
(* characters; the regular expressions are matched position by position.   *)

\* characters the regular expression class \s and str.strip() take as space
Whitespace == {" ", "\n", "\t"}

\* str.strip()
RECURSIVE rstrip(_)
rstrip(s) ==
    IF s # <<>> /\ s[Len(s)] \in Whitespace THEN rstrip(SubSeq(s, 1, Len(s) - 1))
    ELSE s
RECURSIVE lstrip_space(_)
lstrip_space(s) ==
    IF s # <<>> /\ Head(s) \in Whitespace THEN lstrip_space(Tail(s)) ELSE s
strip(s) == lstrip_space(rstrip(s))

\* ^ under re.MULTILINE: position i starts a line
LineStart(s, i) == i = 1 \/ s[i - 1] = "\n"

\* the position after the last character of the line that holds position i
LineEnd(s, i) ==
    CHOOSE j \in i..(Len(s) + 1) :
        /\ j = Len(s) + 1 \/ s[j] = "\n"
        /\ \A k \in i..(j - 1) : s[k] # "\n"

\* the position after the longest run of characters of S that starts at i
RunEnd(s, i, S) ==
    CHOOSE j \in i..(Len(s) + 1) :
        /\ j = Len(s) + 1 \/ s[j] \notin S
        /\ \A k \in i..(j - 1) : s[k] \in S

NoMatch == [found |-> FALSE, group |-> <<>>]
Match(g) == [found |-> TRUE, group |-> g]

\* the leftmost position of P, 0 if there is none
Leftmost(P) == IF P = {} THEN 0 ELSE CHOOSE i \in P : \A j \in P : i <= j

\* ^(.+)\n[=\-*]+\n matches at i: a non-empty line, then a line of =, - or *
\* characters, then a newline
rst_at(s, i) ==
    /\ LineStart(s, i)
    /\ LineEnd(s, i) > i
    /\ LineEnd(s, i) <= Len(s)
    /\ LET u == RunEnd(s, LineEnd(s, i) + 1, {"=", "-", "*"})
       IN  u > LineEnd(s, i) + 1 /\ u <= Len(s) /\ s[u] = "\n"

\* re.search(r"^(.+)\n[=\-*]+\n", s, re.MULTILINE)
rst_search(s) ==
    LET i == Leftmost({k \in 1..Len(s) : rst_at(s, k)})
    IN  IF i = 0 THEN NoMatch ELSE Match(SubSeq(s, i, LineEnd(s, i) - 1))

\* where group 1 of ^<mark>\s+(.+)$ can start for a match at i: after at least
\* one space of the run that follows the mark, on a character that is no
\* newline; \s+ is greedy, so the last such position is taken
heading_starts(s, i) ==
    {g \in (i + 2)..Min(RunEnd(s, i + 1, Whitespace), Len(s)) : s[g] # "\n"}

heading_at(s, i, mark) ==
    /\ LineStart(s, i)
    /\ s[i] = mark
    /\ i + 1 <= Len(s)
    /\ s[i + 1] \in Whitespace
    /\ heading_starts(s, i) # {}

\* re.search(r"^#\s+(.+)$", s, re.MULTILINE), and the same with = for #
heading_search(s, mark) ==
    LET i == Leftmost({k \in 1..Len(s) : heading_at(s, k, mark)})
    IN  IF i = 0 THEN NoMatch
        ELSE LET g == CHOOSE x \in heading_starts(s, i) :
                          \A y \in heading_starts(s, i) : y <= x
             IN  Match(SubSeq(s, g, LineEnd(s, g) - 1))

\* number of characters of the file _extract_title looks at
TitleScanLen == 2000

\* content[:2000]
first_lines(content) == SubSeq(content, 1, Min(Len(content), TitleScanLen))

\* the letters of the file names drawn, lower case and upper case
LowerLetters == <<"a", "b", "d", "m", "n", "y">>
UpperLetters == <<"A", "B", "D", "M", "N", "Y">>
IsCased(c) == c \in Range(LowerLetters) \cup Range(UpperLetters)
LetterIndex(c) ==
    CHOOSE k \in 1..Len(LowerLetters) : LowerLetters[k] = c \/ UpperLetters[k] = c
upper(c) == IF IsCased(c) THEN UpperLetters[LetterIndex(c)] ELSE c
lower(c) == IF IsCased(c) THEN LowerLetters[LetterIndex(c)] ELSE c

\* str.title(): a letter after a letter is lowered, any other letter raised
title(s) ==
    [i \in 1..Len(s) |->
        IF i > 1 /\ IsCased(s[i - 1]) THEN lower(s[i]) ELSE upper(s[i])]

\* file_path.stem.replace("_", " ").replace("-", " ").title()
filename_title(file_path) ==
    title(replace(replace(stem(file_path), "_", " "), "-", " "))

\* a title and the return statement that produced it
Titled(rule, text) == [kind |-> "return", rule |-> rule, value |-> text]

\* the Markdown heading tried before the RST underline
extract_title_md_first(file_path, content, readable) ==
    IF ~readable THEN Titled("filename", filename_title(file_path))
    ELSE LET rst_match == rst_search(first_lines(content))
             md_match == heading_search(first_lines(content), "#")
             adoc_match == heading_search(first_lines(content), "=")
         IN  IF md_match.found THEN Titled("md", strip(md_match.group))
             ELSE IF rst_match.found THEN Titled("rst", strip(rst_match.group))
             ELSE IF adoc_match.found THEN Titled("adoc", strip(adoc_match.group))
             ELSE Titled("filename", filename_title(file_path))

\* GitExtractor._extract_title(file_path); `readable` is false when read_text
\* raises OSError
extract_title(file_path, content, readable) ==
    IF ~readable THEN Titled("filename", filename_title(file_path))
    ELSE LET rst_match == rst_search(first_lines(content))
             md_match == heading_search(first_lines(content), "#")
             adoc_match == heading_search(first_lines(content), "=")
         IN  IF rst_match.found THEN Titled("rst", strip(rst_match.group))
             ELSE IF md_match.found THEN Titled("md", strip(md_match.group))
             ELSE IF adoc_match.found THEN Titled("adoc", strip(adoc_match.group))
             ELSE Titled("filename", filename_title(file_path))

-----------------------------------------------------------------------------
(* converters/mdx.py *)

\* [A-Z] and [a-zA-Z0-9], over the characters the contents are made of
UpperCase == {"A", "B"}
AlNum == UpperCase \cup {"e", "i", "m", "o", "p", "r", "t", "x"}

\* the text s holds the word w from position i on
StartsWithAt(s, i, w) ==
    i + Len(w) - 1 <= Len(s) /\ SubSeq(s, i, i + Len(w) - 1) = w

\* ^import\s+.*$ (or export) matches at i
statement_at(s, i, word) ==
    /\ LineStart(s, i)
    /\ StartsWithAt(s, i, word)
    /\ i + Len(word) <= Len(s)
    /\ s[i + Len(word)] \in Whitespace

\* the position after that match: \s+ takes the whole run of space, newlines
\* included, and .* the rest of the line it stops on
statement_end(s, i, word) ==
    LineEnd(s, RunEnd(s, i + Len(word), Whitespace))

\* _IMPORT_STATEMENT.sub("", s) and _EXPORT_STATEMENT.sub("", s), from i on
RECURSIVE sub_statement(_, _, _)
sub_statement(s, i, word) ==
    IF i > Len(s) THEN <<>>
    ELSE IF statement_at(s, i, word)
         THEN sub_statement(s, statement_end(s, i, word), word)
         ELSE <<s[i]>> \o sub_statement(s, i + 1, word)

\* the position of the first > at or after i, 0 if there is none
FirstClose(s, i) == Leftmost({j \in i..Len(s) : s[j] = ">"})

\* <[A-Z][a-zA-Z0-9]*\s*[^>]*/\s*> matches at i: the first > after the name
\* has a / before it, with nothing but space in between
self_closing_at(s, i) ==
    /\ s[i] = "<"
    /\ i + 1 <= Len(s)
    /\ s[i + 1] \in UpperCase
    /\ FirstClose(s, i + 2) # 0
    /\ \E k \in (i + 2)..(FirstClose(s, i + 2) - 1) :
           /\ s[k] = "/"
           /\ \A x \in (k + 1)..(FirstClose(s, i + 2) - 1) : s[x] \in Whitespace

\* _SELF_CLOSING_TAG.sub("", s), from i on
RECURSIVE sub_self_closing(_, _)
sub_self_closing(s, i) ==
    IF i > Len(s) THEN <<>>
    ELSE IF self_closing_at(s, i)
         THEN sub_self_closing(s, FirstClose(s, i + 2) + 1)
         ELSE <<s[i]>> \o sub_self_closing(s, i + 1)

\* </name> for the name s[i+1 .. i+n]
closing_tag(s, i, n) == <<"<", "/">> \o SubSeq(s, i + 1, i + n) \o <<">">>

\* where the first </name> after the opening tag's > starts, 0 if nowhere
closing_start(s, i, n) ==
    Leftmost({c \in (FirstClose(s, i + 2) + 1)..Len(s) :
                  StartsWithAt(s, c, closing_tag(s, i, n))})

\* the lengths a name that starts at i + 1 can have in a match of
\* <([A-Z][a-zA-Z0-9]*)[^>]*>(.*?)</\1> at i
tag_names(s, i) ==
    IF s[i] = "<" /\ i + 1 <= Len(s) /\ s[i + 1] \in UpperCase
          /\ FirstClose(s, i + 2) # 0
    THEN {n \in 1..(RunEnd(s, i + 1, AlNum) - i - 1) : closing_start(s, i, n) # 0}
    ELSE {}

\* the name is taken as long as a closing tag allows
tag_name(s, i) == CHOOSE n \in tag_names(s, i) : \A k \in tag_names(s, i) : k <= n

\* one _TAG_WITH_CONTENT.sub(r"\2", s), from i on: a match gives the text
\* between the tags and the scan goes on behind the closing tag
RECURSIVE sub_tag_with_content(_, _)
sub_tag_with_content(s, i) ==
    IF i > Len(s) THEN <<>>
    ELSE IF tag_names(s, i) # {}
         THEN LET n == tag_name(s, i)
                  c == closing_start(s, i, n)
              IN  SubSeq(s, FirstClose(s, i + 2) + 1, c - 1)
                      \o sub_tag_with_content(s, c + n + 3)
         ELSE <<s[i]>> \o sub_tag_with_content(s, i + 1)

\* while prev_result != result: prev_result = result; result = sub(result)
RECURSIVE strip_tags(_)
strip_tags(result) ==
    LET next == sub_tag_with_content(result, 1)
    IN  IF next = result THEN result ELSE strip_tags(next)

\* re.sub(r"\n{3,}", "\n\n", s), from i on
RECURSIVE collapse_newlines(_, _)
collapse_newlines(s, i) ==
    IF i > Len(s) THEN <<>>
    ELSE IF s[i] = "\n"
         THEN LET e == RunEnd(s, i, {"\n"})
              IN  (IF e - i >= 3 THEN <<"\n", "\n">> ELSE SubSeq(s, i, e - 1))
                      \o collapse_newlines(s, e)
         ELSE <<s[i]>> \o collapse_newlines(s, i + 1)

\* MdxConverter.convert(source_path, content)
MdxConverter_convert(source_path, content, tool) ==
    LET no_imports == sub_statement(content, 1, <<"i", "m", "p", "o", "r", "t">>)
        no_exports == sub_statement(no_imports, 1, <<"e", "x", "p", "o", "r", "t">>)
        no_self_closing == sub_self_closing(no_exports, 1)
        no_tags == strip_tags(no_self_closing)
    IN  Return(strip(collapse_newlines(no_tags, 1)) \o <<"\n">>)

\* converter.convert(source_path, content), dispatched on the instance
convert(converter, source_path, content, tool) ==
    CASE converter = "identity" -> IdentityConverter_convert(source_path, content, tool)
      [] converter = "asciidoc" -> AsciidocConverter_convert(source_path, content, tool)
      [] converter = "rst"      -> RstConverter_convert(source_path, content, tool)
      [] converter = "docbook"  -> DocbookConverter_convert(source_path, content, tool)
      [] converter = "mdx"      -> MdxConverter_convert(source_path, content, tool)

-----------------------------------------------------------------------------
(* download_docs.py: helpers of extract_project *)

\* create_extractor(project_config)
create_extractor(cfg) ==
    IF cfg.source_type = "git"
    THEN Return(GitExtractor(cfg.sparse_checkout, cfg.version_tag))
    ELSE Raise(ValueError(<<"Unsupported source_type: ", cfg.source_type>>))

\* sanitize_filename(path)
sanitize_filename(path) ==
    lstrip(replace(replace(with_suffix_empty(path), "/", "_"), "\\", "_"), "_")

\* --max-docs: None when the option is absent, else any integer
NoMaxDocs == [given |-> FALSE, n |-> 0]
MaxDocsArg(n) == [given |-> TRUE, n |-> n]

\* if max_docs and len(documents) > max_docs: documents = documents[:max_docs]
limit_documents(docs, max_docs) ==
    IF max_docs.given /\ max_docs.n # 0 /\ Len(docs) > max_docs.n
    THEN SliceTo(docs, max_docs.n)
    ELSE docs

\* a Python dict as the sequence of its items in insertion order
dict_keys(d) == [i \in 1..Len(d) |-> d[i].key]
dict_has(d, k) == \E i \in 1..Len(d) : d[i].key = k
dict_get(d, k) == d[CHOOSE i \in 1..Len(d) : d[i].key = k].value
\* d[k] = v
dict_set(d, k, v) ==
    IF dict_has(d, k)
    THEN [i \in 1..Len(d) |-> IF d[i].key = k THEN [key |-> k, value |-> v] ELSE d[i]]
    ELSE Append(d, [key |-> k, value |-> v])

\* what can go wrong while one document is processed (TRUE = the call works)
DocOutcomes == [read : BOOLEAN, tool : ToolOutcomes, write : BOOLEAN, stat : BOOLEAN]

\* Path.write_text(converted) in docs_dir; src is the source the text came from
write_text(dd, name, text, src) ==
    (name :> [content |-> text, src |-> src]) @@ dd

\* convert_document(doc, source_path, output_dir, converter): the result and
\* the files of output_dir afterwards
convert_document(doc, converter, dd, o) ==
    IF ~o.read THEN [res |-> Raise(OSError("read_text")), docs |-> dd]
    ELSE LET converted == convert(converter, doc, SourceContent(doc), o.tool)
             output_name == sanitize_filename(doc) \o <<".", output_format(converter)>>
         IN  IF converted.kind = "raise" THEN [res |-> converted, docs |-> dd]
             ELSE IF ~o.write THEN [res |-> Raise(OSError("write_text")), docs |-> dd]
             ELSE [res |-> Return(output_name),
                   docs |-> write_text(dd, output_name, converted.value, doc)]

\* the exceptions the loop of extract_project catches (lines 206-209)
caught_in_loop(e) == e.type \in {"ConversionError", "OSError"}

\* the counter incremented in a `finally` instead of on success
count_after_always(count, ok) == count + 1

\* converted_count after one document (line 204 runs only on success)
count_after(count, ok) == IF ok THEN count + 1 ELSE count

\* the manifest written from inside the loop, after the first document
loop_finished_early(res, docs) == Len(res) >= Min(1, Len(docs))

\* the for loop is over: every document of the list has been visited
loop_finished(res, docs) == Len(res) = Len(docs)

\* manual cleanup at the end of the block, skipped when an exception unwinds
exit_tmp_leaks(wd, raised) == IF raised THEN wd ELSE "removed"

\* leaving the `with tempfile.TemporaryDirectory()` block, normally or by an
\* exception: the directory is removed
exit_tmp(wd, raised) == "removed"

-----------------------------------------------------------------------------
(* download_docs.py: main() and extract_project() as a state machine *)

\* the projects of config.yaml
Projects == {"rust-book"}

Running == [kind |-> "running", code |-> -1, exc |-> "none"]
Returned(code) == [kind |-> "return", code |-> code, exc |-> "none"]
Raised(type) == [kind |-> "raise", code |-> -1, exc |-> type]

NoManifest == [by |-> "none", complete |-> FALSE, total_documents |-> 0, documents |-> <<>>]
\* a metadata.json left by an earlier run
OldManifest == [by |-> "old", complete |-> TRUE, total_documents |-> 0, documents |-> <<>>]

EmptyDir == [n \in {} |-> NoExc]

ArgsSet ==
    [list : BOOLEAN,
     project : {"", "rust-book", "nope"},
     max_docs : {NoMaxDocs} \cup {MaxDocsArg(n) : n \in (0 - MaxCap)..MaxCap}]

\* projects[args.project]: a plain shallow clone of the default branch, or a
\* sparse clone of a tagged version
ProjectConfigs ==
    {c \in [source_type : {"git", "svn"},
            converter : {"identity", "rst", "bogus"},
            sparse_checkout : {<<>>, <<"docs">>},
            version_tag : {"None", "v1"}] :
        HasSparse(c.sparse_checkout) <=> HasVersion(c.version_tag)}

IdleFetch ==
    /\ extractor = GitExtractor(<<>>, "None")
    /\ trees = <<>>
    /\ calls = <<>>

IdleConvert ==
    /\ conv_in = [converter |-> "identity", source_path |-> Path(<<"a">>, ".md"),
                  content |-> <<>>, tool |-> "ok"]
    /\ conv_out = [kind |-> "pending"]
    /\ conv_again = [kind |-> "pending"]

IdleTitle ==
    /\ title_in = [file_path |-> Path(<<"a">>, ".md"), content |-> <<>>,
                   readable |-> TRUE]
    /\ title_out = [kind |-> "pending"]

IdleConv == IdleConvert /\ IdleTitle

IdleMain ==
    /\ pc = "idle"
    /\ args = [list |-> FALSE, project |-> "", max_docs |-> NoMaxDocs]
    /\ config = "unloaded"
    /\ project_config = [source_type |-> "git", converter |-> "identity",
                         sparse_checkout |-> <<>>, version_tag |-> "None"]
    /\ main_result = Running
    /\ exc = NoExc
    /\ work_dir = "none"
    /\ git_cmds = <<>>
    /\ enumerated = <<>>
    /\ documents = <<>>
    /\ results = <<>>
    /\ converted_count = 0
    /\ metadata = [total_documents |-> 0, documents |-> <<>>]
    /\ docs_dir = EmptyDir
    /\ metadata_json = NoManifest
    /\ meta_writes = 0

Init ==
    /\ pc = "main"
    /\ args \in ArgsSet
    /\ config = "unloaded"
    /\ project_config \in ProjectConfigs
    /\ main_result = Running
    /\ exc = NoExc
    /\ work_dir = "none"
    /\ git_cmds = <<>>
    /\ enumerated = <<>>
    /\ documents = <<>>
    /\ results = <<>>
    /\ converted_count = 0
    /\ metadata = [total_documents |-> 0, documents |-> <<>>]
    /\ docs_dir = EmptyDir
    /\ metadata_json \in {NoManifest, OldManifest}
    /\ meta_writes = 0
    /\ IdleFetch
    /\ IdleConv

\* main() ends by returning `code`
MainReturns(code) ==
    /\ main_result' = Returned(code)
    /\ pc' = "done"

\* an exception leaves extract_project and reaches `except Exception` of main
\* (lines 345-347), which logs it and returns 1
ExtractFails(e) ==
    /\ exc' = e
    /\ MainReturns(1)

\* main, lines 304-314: parse the arguments, load the configuration
LoadConfig ==
    /\ pc = "main"
    /\ \E outcome \in {"ok", "FileNotFoundError", "YAMLError", "TypeError"} :
         /\ config' = outcome
         /\ CASE outcome = "ok" -> pc' = "loaded" /\ main_result' = main_result
              [] outcome \in {"FileNotFoundError", "YAMLError"} -> MainReturns(1)
              \* load_config raises TypeError for a config that is no
              \* dictionary; main has no handler for it
              [] outcome = "TypeError" ->
                   main_result' = Raised("TypeError") /\ pc' = "done"
    /\ UNCHANGED <<args, project_config, exc, work_dir, git_cmds, enumerated,
                   documents, results, converted_count, metadata, docs_dir,
                   metadata_json, meta_writes>>
    /\ UNCHANGED <<fetchVars, convVars>>

\* main, lines 316-334: --list, missing project argument, unknown project
SelectProject ==
    /\ pc = "loaded"
    /\ IF args.list THEN MainReturns(0)
       ELSE IF args.project = "" THEN MainReturns(1)
       ELSE IF args.project \notin Projects THEN MainReturns(1)
       ELSE pc' = "extract" /\ main_result' = main_result
    /\ UNCHANGED <<args, config, project_config, exc, work_dir, git_cmds, enumerated,
                   documents, results, converted_count, metadata, docs_dir,
                   metadata_json, meta_writes>>
    /\ UNCHANGED <<fetchVars, convVars>>

\* extract_project, lines 144-168: output directories, extractor, converter,
\* the empty manifest
Setup ==
    /\ pc = "extract"
    /\ LET e == create_extractor(project_config)
           c == get_converter(project_config.converter)
       IN  IF e.kind = "raise" THEN ExtractFails(e.exc) /\ metadata' = metadata
           ELSE IF c.kind = "raise" THEN ExtractFails(c.exc) /\ metadata' = metadata
           ELSE /\ metadata' = [total_documents |-> 0, documents |-> <<>>]
                /\ pc' = "fetch"
                /\ UNCHANGED <<main_result, exc>>
    /\ UNCHANGED <<args, config, project_config, work_dir, git_cmds, enumerated,
                   documents, results, converted_count, docs_dir,
                   metadata_json, meta_writes>>
    /\ UNCHANGED <<fetchVars, convVars>>

\* extract_project, lines 171-176: enter the temporary directory and fetch
Fetch ==
    /\ pc = "fetch"
    /\ \E o \in GitOutcomes :
         LET r == fetch_source(create_extractor(project_config).value, AbsentTree, o)
         IN  /\ git_cmds' = r.cmds
             /\ IF r.raised
                THEN /\ work_dir' = exit_tmp("exists", TRUE)
                     /\ ExtractFails(CalledProcessError(r.cmds[Len(r.cmds)].cmd))
                ELSE /\ work_dir' = "exists"
                     /\ pc' = "list"
                     /\ UNCHANGED <<main_result, exc>>
    /\ UNCHANGED <<args, config, project_config, enumerated, documents, results,
                   converted_count, metadata, docs_dir, metadata_json, meta_writes>>
    /\ UNCHANGED <<fetchVars, convVars>>

\* extract_project, lines 179-185: list the documents, apply --max-docs
ListDocuments ==
    /\ pc = "list"
    /\ \/ \E docs \in DistinctSeqs(AllDocs, MaxDocs) :
            /\ enumerated' = docs
            /\ documents' = limit_documents(docs, args.max_docs)
            /\ pc' = "loop"
            /\ UNCHANGED <<main_result, exc, work_dir>>
       \/ \* the glob cannot read a directory
          /\ work_dir' = exit_tmp(work_dir, TRUE)
          /\ ExtractFails(OSError("glob"))
          /\ UNCHANGED <<enumerated, documents>>
    /\ UNCHANGED <<args, config, project_config, git_cmds, results, converted_count,
                   metadata, docs_dir, metadata_json, meta_writes>>
    /\ UNCHANGED <<fetchVars, convVars>>

\* the manifest entry of a converted document (lines 198-203)
manifest_entry(doc, output_name, dd) ==
    [source_path |-> str(doc),
     file |-> <<"docs/">> \o output_name,
     size_bytes |-> Len(dd[output_name].content)]

\* extract_project, lines 189-209: one iteration of the loop
ConvertOne ==
    /\ pc = "loop"
    /\ ~loop_finished(results, documents)
    /\ \E o \in DocOutcomes :
         LET doc == documents[Len(results) + 1]
             converter == get_converter(project_config.converter).value
             cd == convert_document(doc, converter, docs_dir, o)
             ok == cd.res.kind = "return" /\ o.stat
             e == IF cd.res.kind = "raise" THEN cd.res.exc ELSE OSError("stat")
         IN  /\ docs_dir' = cd.docs
             /\ converted_count' = count_after(converted_count, ok)
             /\ IF ok
                THEN /\ metadata' = [metadata EXCEPT !.documents =
                            dict_set(@, stem(doc), manifest_entry(doc, cd.res.value, cd.docs))]
                     /\ results' = Append(results, "ok")
                     /\ UNCHANGED <<pc, main_result, exc, work_dir>>
                ELSE IF caught_in_loop(e)
                THEN /\ results' = Append(results, e.type)
                     /\ UNCHANGED <<metadata, pc, main_result, exc, work_dir>>
                ELSE /\ work_dir' = exit_tmp(work_dir, TRUE)
                     /\ ExtractFails(e)
                     /\ UNCHANGED <<metadata, results>>
    /\ UNCHANGED <<args, config, project_config, git_cmds, enumerated, documents,
                   metadata_json, meta_writes>>
    /\ UNCHANGED <<fetchVars, convVars>>

\* extract_project, lines 211-221, and main, line 349: set total_documents,
\* write metadata.json, leave the temporary directory, return
WriteMetadata ==
    /\ pc = "loop"
    /\ loop_finished(results, documents)
    /\ metadata' = [metadata EXCEPT !.total_documents = converted_count]
    /\ \E outcome \in {"ok", "OSError_open", "OSError_dump"} :
         CASE outcome = "ok" ->
                /\ metadata_json' = [by |-> "run", complete |-> TRUE,
                                     total_documents |-> metadata'.total_documents,
                                     documents |-> metadata'.documents]
                /\ meta_writes' = meta_writes + 1
                /\ work_dir' = exit_tmp(work_dir, FALSE)
                /\ MainReturns(0)
                /\ exc' = exc
           [] outcome = "OSError_open" ->
                /\ UNCHANGED <<metadata_json, meta_writes>>
                /\ work_dir' = exit_tmp(work_dir, TRUE)
                /\ ExtractFails(OSError("open"))
           [] outcome = "OSError_dump" ->
                \* open("w") truncated the file, json.dump did not finish
                /\ metadata_json' = [by |-> "run", complete |-> FALSE,
                                     total_documents |-> 0, documents |-> <<>>]
                /\ meta_writes' = meta_writes + 1
                /\ work_dir' = exit_tmp(work_dir, TRUE)
                /\ ExtractFails(OSError("write"))
    /\ UNCHANGED <<args, config, project_config, git_cmds, enumerated, documents,
                   results, converted_count, docs_dir>>
    /\ UNCHANGED <<fetchVars, convVars>>

Next ==
    \/ LoadConfig
    \/ SelectProject
    \/ Setup
    \/ Fetch
    \/ ListDocuments
    \/ ConvertOne
    \/ WriteMetadata

Spec == Init /\ [][Next]_vars

-----------------------------------------------------------------------------
(* Sequences of GitExtractor calls on the same working directories *)

WorkDirs == {"w1", "w2"}

\* root path fetch_source returns: work_dir / "repo"
repo_dir(w) == <<w, "repo">>

InitFetch ==
    /\ extractor \in {GitExtractor(sp, vt) : sp \in {<<>>, <<"docs">>},
                                             vt \in {"None", "v1"}}
    /\ trees \in [WorkDirs -> {AbsentTree, ClonedTree}]
    /\ calls = <<>>
    /\ IdleMain
    /\ IdleConv

\* one call extractor.fetch_source(w)
FetchSource ==
    /\ Len(calls) < MaxCalls
    /\ \E w \in WorkDirs, o \in GitOutcomes :
         LET r == fetch_source(extractor, trees[w], o)
         IN  /\ trees' = [trees EXCEPT ![w] = r.tree]
             /\ calls' = Append(calls,
                    [op |-> "fetch_source", work_dir |-> w,
                     before |-> trees[w], after |-> r.tree,
                     cmds |-> r.cmds, raised |-> r.raised,
                     ret |-> IF r.raised THEN <<>> ELSE repo_dir(w)])
    /\ UNCHANGED extractor
    /\ UNCHANGED <<mainVars, convVars>>

\* one call extractor.cleanup(w)
Cleanup ==
    /\ Len(calls) < MaxCalls
    /\ \E w \in WorkDirs :
         /\ trees' = [trees EXCEPT ![w] = cleanup(trees[w])]
         /\ calls' = Append(calls,
                [op |-> "cleanup", work_dir |-> w,
                 before |-> trees[w], after |-> cleanup(trees[w]),
                 cmds |-> <<>>, raised |-> FALSE, ret |-> <<>>])
    /\ UNCHANGED extractor
    /\ UNCHANGED <<mainVars, convVars>>

NextFetch ==
    \/ FetchSource
    \/ Cleanup

SpecFetch == InitFetch /\ [][NextFetch]_vars

-----------------------------------------------------------------------------
(* Single calls of Converter.convert *)

Contents == SeqsUpTo({"t", "\n"}, MaxLen)

\* the pieces MDX files are made of
MdxTokens ==
    { <<"<", "A", ">">>, <<"<", "/", "A", ">">>,
      <<"<", "B", ">", "t", "<", "/", "B", ">">>,
      <<"<", "A", "/", ">">>,
      <<"i", "m", "p", "o", "r", "t", " ">>,
      <<"t">>, <<"\n">> }

RECURSIVE Concat(_)
Concat(ts) == IF ts = <<>> THEN <<>> ELSE Head(ts) \o Concat(Tail(ts))

MdxContents == {Concat(ts) : ts \in SeqsUpTo(MdxTokens, MaxTokens)}

InitConv ==
    /\ conv_in \in [converter : {"identity", "asciidoc", "rst", "docbook"},
                    source_path : AllDocs,
                    content : Contents,
                    tool : ToolOutcomes]
               \cup [converter : {"mdx"},
                     source_path : {Path(<<"a">>, ".mdx")},
                     content : MdxContents,
                     tool : {"ok"}]
    /\ conv_out = [kind |-> "pending"]
    /\ conv_again = [kind |-> "pending"]
    /\ IdleTitle
    /\ IdleMain
    /\ IdleFetch

\* converter.convert(source_path, content)
Convert ==
    /\ conv_out.kind = "pending"
    /\ conv_out' = convert(conv_in.converter, conv_in.source_path,
                           conv_in.content, conv_in.tool)
    /\ UNCHANGED <<conv_in, conv_again, title_in, title_out>>
    /\ UNCHANGED <<mainVars, fetchVars>>

\* converter.convert(source_path, converted): the converter run on its output
ConvertAgain ==
    /\ conv_out.kind = "return"
    /\ conv_again.kind = "pending"
    /\ conv_again' = convert(conv_in.converter, conv_in.source_path,
                             conv_out.value, conv_in.tool)
    /\ UNCHANGED <<conv_in, conv_out, title_in, title_out>>
    /\ UNCHANGED <<mainVars, fetchVars>>

NextConv == Convert \/ ConvertAgain

SpecConv == InitConv /\ [][NextConv]_vars

-----------------------------------------------------------------------------
(* Single calls of GitExtractor._extract_title *)

\* the lines files are made of
TitleLines ==
    { <<"R">>, <<"#", " ", "M">>, <<"=", " ", "D">>, <<"=">>, <<"#">>, <<>> }

\* str.join("\n", lines)
RECURSIVE join_lines(_)
join_lines(ls) ==
    IF ls = <<>> THEN <<>>
    ELSE IF Len(ls) = 1 THEN ls[1]
    ELSE ls[1] \o <<"\n">> \o join_lines(Tail(ls))

TitleFiles ==
    { Path(<<"m", "y", "_", "d", "-", "n">>, ".rst"),
      Path(<<"d", "/", "a", "B">>, ".md") }

InitTitle ==
    /\ title_in \in [file_path : TitleFiles,
                     content : {join_lines(ls) : ls \in SeqsUpTo(TitleLines, MaxLines)},
                     readable : BOOLEAN]
    /\ title_out = [kind |-> "pending"]
    /\ IdleConvert
    /\ IdleMain
    /\ IdleFetch

\* self._extract_title(file_path)
ExtractTitle ==
    /\ title_out.kind = "pending"
    /\ title_out' = extract_title(title_in.file_path, title_in.content,
                                  title_in.readable)
    /\ UNCHANGED <<title_in, conv_in, conv_out, conv_again>>
    /\ UNCHANGED <<mainVars, fetchVars>>

NextTitle == ExtractTitle

SpecTitle == InitTitle /\ [][NextTitle]_vars

-----------------------------------------------------------------------------
(* Properties of extract_project and main (checked under Spec) *)

\* indexes of the documents processed so far that were converted and recorded
OkIndexes == {i \in 1..Len(results) : results[i] = "ok"}

\* metadata.json holds a manifest this run wrote completely
ManifestWritten == metadata_json.by = "run" /\ metadata_json.complete

\* C1: in the manifest extract_project returns and writes, total_documents
\* equals the number of entries of the documents mapping, whatever the list of
\* documents (same stems included) and whatever succeeded or failed.
C1_TotalEqualsEntries ==
    ManifestWritten =>
        /\ metadata_json.total_documents = Len(metadata_json.documents)
        /\ metadata.total_documents = Len(metadata.documents)

\* C2: a document whose conversion raised ConversionError or OSError has no
\* manifest entry and is not counted, the documents after it are still
\* processed, and total_documents is the number of documents that succeeded.
C2_FailuresSkipped ==
    pc \in {"loop", "done"} =>
        /\ \A i \in 1..Len(results) :
             results[i] # "ok" =>
                 \A k \in 1..Len(metadata.documents) :
                     metadata.documents[k].value.source_path # str(documents[i])
        /\ converted_count = Cardinality(OkIndexes)
        /\ (pc = "done" /\ Len(results) > 0) => Len(results) = Len(documents)
        /\ ManifestWritten =>
             /\ metadata_json.total_documents = Cardinality(OkIndexes)
             /\ metadata.total_documents = Cardinality(OkIndexes)

\* three documents, the first failing, the two after it converted: total 2
C2_Witness ==
    /\ ManifestWritten
    /\ Len(results) = 3
    /\ results[1] \in {"ConversionError", "OSError"}
    /\ results[2] = "ok" /\ results[3] = "ok"
    /\ metadata_json.total_documents = 2

\* C3: metadata.json is written at most once per run, and only once every
\* document of the (possibly truncated) list has been converted and recorded
\* or skipped; before the loop has finished no manifest of this run exists.
C3_ManifestOnceAfterLoop ==
    /\ meta_writes <= 1
    /\ (meta_writes > 0 \/ metadata_json.by = "run") =>
         /\ pc = "done"
         /\ meta_writes = 1
         /\ documents = limit_documents(enumerated, args.max_docs)
         /\ Len(results) = Len(documents)
         /\ \A i \in 1..Len(results) :
              \/ results[i] = "ok" /\ dict_has(metadata.documents, stem(documents[i]))
              \/ results[i] \in {"ConversionError", "OSError"}

\* a manifest written after a list of three with a skipped document
C3_Witness ==
    /\ ManifestWritten
    /\ meta_writes = 1
    /\ Len(documents) = 3
    /\ \E i \in 1..Len(results) : results[i] # "ok"

\* the clone, sparse-checkout or checkout command exited non-zero
FetchFailed ==
    \E i \in 1..Len(git_cmds) :
        /\ ~git_cmds[i].ok
        /\ git_cmds[i].cmd \in {"clone", "clone --sparse", "sparse-checkout set", "checkout"}

\* C4: when fetch_source fails, extract_project aborts with the error: no
\* document is listed or converted, this run writes no metadata.json, and main
\* returns 1.
C4_FetchFailureAborts ==
    FetchFailed =>
        /\ pc = "done"
        /\ exc.type = "CalledProcessError"
        /\ main_result = Returned(1)
        /\ enumerated = <<>> /\ results = <<>>
        /\ DOMAIN docs_dir = {}
        /\ meta_writes = 0 /\ metadata_json.by # "run"

\* the checkout of the version tag failed after a good sparse clone, and an
\* older manifest is still in place
C4_Witness ==
    /\ \E i \in 1..Len(git_cmds) : git_cmds[i].cmd = "checkout" /\ ~git_cmds[i].ok
    /\ main_result = Returned(1)
    /\ metadata_json.by = "old"

\* the project configuration names no known converter or no supported source
BadConfig ==
    \/ project_config.source_type # "git"
    \/ project_config.converter \notin Range(converters)

\* extract_project was called in this run
ExtractCalled == config = "ok" /\ ~args.list /\ args.project \in Projects

\* C5: with an unknown converter name or an unsupported source_type,
\* extract_project fails with ValueError before any fetch, before any document
\* is read or written and without a manifest; the converter message lists the
\* valid names.
C5_BadConfigFailsFast ==
    BadConfig =>
        /\ pc \notin {"fetch", "list", "loop"}
        /\ git_cmds = <<>> /\ work_dir = "none"
        /\ enumerated = <<>> /\ results = <<>>
        /\ DOMAIN docs_dir = {}
        /\ meta_writes = 0 /\ metadata_json.by # "run"
        /\ (pc = "done" /\ ExtractCalled) =>
             /\ exc.type = "ValueError"
             /\ main_result = Returned(1)
             /\ project_config.source_type = "git" =>
                  /\ exc.msg[1] = "Unknown converter: "
                  /\ \A n \in Range(converters) : n \in Range(exc.msg)

\* the unknown converter "bogus" was rejected with the list of names
C5_Witness ==
    /\ pc = "done"
    /\ ExtractCalled
    /\ project_config.source_type = "git"
    /\ project_config.converter = "bogus"
    /\ exc.type = "ValueError"

\* C6: once extract_project has exited, on any path (normal return, fetch
\* failure, an exception while listing, converting or writing the manifest),
\* its temporary working directory no longer exists.
C6_TempDirRemoved ==
    /\ pc = "done" => work_dir # "exists"
    /\ work_dir = "exists" => pc \in {"list", "loop"}
    /\ (pc = "done" /\ ExtractCalled /\ ~BadConfig) => work_dir = "removed"

\* the directory was removed while an exception from the manifest write unwound
C6_Witness ==
    /\ pc = "done"
    /\ work_dir = "removed"
    /\ exc.type = "OSError"
    /\ Len(results) > 0

\* C7: with --max-docs N, extract_project processes exactly the first
\* min(N, number enumerated) documents of the enumeration, in that order, for
\* every integer N the option accepts.
C7_CapIsPrefix ==
    (pc = "loop" /\ args.max_docs.given) =>
        documents = SubSeq(enumerated, 1, Min(args.max_docs.n, Len(enumerated)))

\* the job-level steps of the run succeeded
JobLevelOK ==
    /\ config = "ok"
    /\ args.list \/ (args.project \in Projects /\ exc.type = "none")

\* C10: main returns 0 whenever the job-level steps succeed, even if every
\* document was skipped, and returns 1 on a configuration error, an unknown
\* project, a missing project argument or an exception escaping
\* extract_project.
C10_ExitCodes ==
    pc = "done" =>
        /\ main_result.kind = "return"
        /\ main_result.code = (IF JobLevelOK THEN 0 ELSE 1)

\* the output file a manifest entry names: its "file" without the "docs/"
entry_file(entry) == Tail(entry.file)

\* C15: when the manifest is written, every entry's file names an output file
\* of docs/ that holds the conversion of the entry's own source_path and whose
\* size is the entry's size_bytes; two converted source paths never share one
\* output file.
C15_EntriesNameOwnFile ==
    ManifestWritten =>
        \A k \in 1..Len(metadata_json.documents) :
            LET entry == metadata_json.documents[k].value
            IN  /\ entry_file(entry) \in DOMAIN docs_dir
                /\ str(docs_dir[entry_file(entry)].src) = entry.source_path
                /\ docs_dir[entry_file(entry)].content =
                       convert(project_config.converter,
                               docs_dir[entry_file(entry)].src,
                               SourceContent(docs_dir[entry_file(entry)].src),
                               "ok").value
                /\ Len(docs_dir[entry_file(entry)].content) = entry.size_bytes

-----------------------------------------------------------------------------
(* Properties of GitExtractor.fetch_source (checked under SpecFetch) *)

\* C8: whenever work_dir/repo already exists, fetch_source returns
\* work_dir/repo and runs no external command; so of two consecutive calls on
\* the same work_dir the second returns the same root and runs no command.
C8_FetchIdempotent ==
    /\ \A i \in 1..Len(calls) :
         (calls[i].op = "fetch_source" /\ calls[i].before.exists) =>
             /\ calls[i].cmds = <<>>
             /\ ~calls[i].raised
             /\ calls[i].ret = repo_dir(calls[i].work_dir)
             /\ calls[i].after = calls[i].before
    /\ \A i \in 1..(Len(calls) - 1) :
         ( /\ calls[i].op = "fetch_source" /\ calls[i + 1].op = "fetch_source"
           /\ calls[i].work_dir = calls[i + 1].work_dir
           /\ ~calls[i].raised ) =>
             /\ ~calls[i + 1].raised
             /\ calls[i + 1].ret = calls[i].ret
             /\ calls[i + 1].cmds = <<>>

\* a call that cloned, followed by a call on the same work_dir that ran nothing
C8_Witness ==
    \E i \in 1..(Len(calls) - 1) :
        /\ calls[i].op = "fetch_source" /\ calls[i + 1].op = "fetch_source"
        /\ calls[i].work_dir = calls[i + 1].work_dir
        /\ calls[i].cmds # <<>> /\ ~calls[i].raised
        /\ calls[i + 1].cmds = <<>> /\ calls[i + 1].ret = calls[i].ret

\* the clone phase of call c: the commands before any tag fetch or checkout
ClonePhase(c) ==
    SelectSeq(c.cmds, LAMBDA x : x.cmd \notin {"fetch tag", "checkout"})

\* C13: with a version tag, fetch_source runs clone, then the shallow tag
\* fetch, then the checkout; a failing tag fetch does not fail fetch_source and
\* the checkout is still attempted, a failing checkout makes fetch_source
\* raise; without a version tag neither the tag fetch nor the checkout runs.
C13_CheckoutOrder ==
    \A i \in 1..Len(calls) :
        LET c == calls[i]
            n == Len(c.cmds)
        IN  (c.op = "fetch_source" /\ c.cmds # <<>>) =>
              /\ c.cmds[1].cmd \in {"clone", "clone --sparse"}
              /\ IF HasVersion(extractor.version_tag)
                 THEN IF \A k \in 1..Len(ClonePhase(c)) : ClonePhase(c)[k].ok
                      THEN /\ n = Len(ClonePhase(c)) + 2
                           /\ c.cmds[n - 1].cmd = "fetch tag"
                           /\ c.cmds[n].cmd = "checkout"
                           /\ c.raised <=> ~c.cmds[n].ok
                           /\ c.cmds[n].ok => c.after.ref = extractor.version_tag
                      ELSE /\ c.raised
                           /\ c.cmds = ClonePhase(c)
                 ELSE c.cmds = ClonePhase(c)

\* the tag fetch failed (the ref is a branch), the checkout ran and succeeded,
\* and fetch_source returned
C13_Witness ==
    \E i \in 1..Len(calls) :
        /\ calls[i].op = "fetch_source"
        /\ ~calls[i].raised
        /\ Len(calls[i].cmds) >= 3
        /\ calls[i].cmds[Len(calls[i].cmds) - 1] = Cmd("fetch tag", FALSE)
        /\ calls[i].cmds[Len(calls[i].cmds)] = Cmd("checkout", TRUE)

\* before call i, some call on the same work_dir found no tree there: the tree
\* call i sees or builds was made by this sequence of calls
BuiltByCalls(i) ==
    \E j \in 1..i :
        calls[j].work_dir = calls[i].work_dir /\ ~calls[j].before.exists

\* C14: with a version tag configured, every fetch_source call that returns
\* normally returns a tree on which the checkout of that ref succeeded, also
\* after an earlier call on the work_dir failed at the sparse-checkout or the
\* checkout.
C14_ReturnedTreeCheckedOut ==
    HasVersion(extractor.version_tag) =>
        \A i \in 1..Len(calls) :
            (calls[i].op = "fetch_source" /\ ~calls[i].raised /\ BuiltByCalls(i)) =>
                calls[i].after.ref = extractor.version_tag

-----------------------------------------------------------------------------
(* Properties of the converters (checked under SpecConv) *)

\* C9: the RST and DocBook converters either return the converted content or
\* raise ConversionError carrying the source path and the underlying message;
\* no other kind of error leaves convert.
C9_OnlyConversionError ==
    (conv_out.kind # "pending" /\ conv_in.converter \in {"rst", "docbook"}) =>
        \/ /\ conv_out.kind = "return"
           /\ conv_out.value = pandoc_html(conv_in.content, conv_in.converter)
        \/ /\ conv_out.kind = "raise"
           /\ conv_out.exc.type = "ConversionError"
           /\ conv_out.exc.source_path = conv_in.source_path
           /\ "pandoc failed" \in Range(conv_out.exc.msg)


-----------------------------------------------------------------------------
(* Claims checked under SpecTitle *)

\* str.split("\n"): the lines of a text
RECURSIVE SplitLines(_)
SplitLines(s) ==
    IF \A k \in 1..Len(s) : s[k] # "\n" THEN <<s>>
    ELSE LET n == CHOOSE k \in 1..Len(s) :
                      s[k] = "\n" /\ \A j \in 1..(k - 1) : s[j] # "\n"
         IN  <<SubSeq(s, 1, n - 1)>> \o SplitLines(SubSeq(s, n + 1, Len(s)))

\* line i is a title line: it is not empty and the next line, which is not the
\* last one, is made of =, - or * characters only
UnderlinedAt(ls, i) ==
    /\ i + 2 <= Len(ls)
    /\ ls[i] # <<>>
    /\ ls[i + 1] # <<>>
    /\ \A k \in 1..Len(ls[i + 1]) : ls[i + 1][k] \in {"=", "-", "*"}

Underlined(ls) == \E i \in 1..Len(ls) : UnderlinedAt(ls, i)

FirstUnderlined(ls) ==
    ls[CHOOSE i \in 1..Len(ls) :
           UnderlinedAt(ls, i) /\ \A j \in 1..(i - 1) : ~UnderlinedAt(ls, j)]

\* some line is the mark, a space, and a text
HasHeading(ls, mark) ==
    \E i \in 1..Len(ls) :
        Len(ls[i]) >= 3 /\ ls[i][1] = mark /\ ls[i][2] = " " /\ ls[i][3] # " "

\* the title the file name gives: my_d-n.rst is "My D N", d/aB.md is "Ab"
FilenameTitleOf(file_path) ==
    IF file_path.name = <<"m", "y", "_", "d", "-", "n">>
    THEN <<"M", "y", " ", "D", " ", "N">>
    ELSE <<"A", "b">>

TitleDone == title_out.kind # "pending"

-----------------------------------------------------------------------------
(* Claims checked under SpecConv: MdxConverter *)

\* the MDX converter was run on a content and then on what it returned
MdxTwice == conv_in.converter = "mdx" /\ conv_again.kind # "pending"

\* C11: MdxConverter.convert is idempotent: for every content, converting the
\* converted text gives the converted text again, no tag, import or export
\* being left for a second call to remove.
C11_MdxIdempotent ==
    MdxTwice => conv_again.value = conv_out.value

====
